---- MODULE Spec2Model ----
(***************************************************************************)
(* capnls, src/capnp.rs: diags() runs `capnp compile` on a document and    *)
(* parse_diag() turns each line of the compiler's stderr into an LSP       *)
(* diagnostic.  Strings are TLA+ strings, handled character by character   *)
(* with Len, SubSeq and \o.  A u32 is kept at its true width as two        *)
(* 16-bit limbs [hi, lo] (value hi * 2^16 + lo).                           *)
(***************************************************************************)
EXTENDS Integers, Sequences, FiniteSets, TLC

VARIABLES
    uri,          \* the document reference handed to diags
    proto_paths,  \* the search-path set handed to diags
    pc,           \* position of the call inside diags
    cmd,          \* the command line built so far (program, then arguments)
    spawned,      \* number of external processes started by the call
    emitted,      \* what the compiler wrote: the sequence of line descriptors
    output,       \* the captured stderr
    lines,        \* stderr.lines(), the iterator's items
    idx,          \* next item of the iterator
    res,          \* diagnostics collected so far
    ret           \* what the call returned

vars == <<uri, proto_paths, pc, cmd, spawned, emitted, output, lines, idx, res, ret>>

----------------------------------------------------------------------------
(* Option and Result values *)

None == [some |-> FALSE]
Some(v) == [some |-> TRUE, val |-> v]

ParseErr == [ok |-> FALSE]
ParseOk(v) == [ok |-> TRUE, val |-> v]

----------------------------------------------------------------------------
(* u32 arithmetic on limbs *)

Limb == 2^16

U32(hi, lo) == [hi |-> hi, lo |-> lo]

U32Zero == U32(0, 0)

U32Max == U32(Limb - 1, Limb - 1)

\* u32::saturating_sub(1) that wraps around instead of saturating
WrappingSub1(v) ==
    IF v.lo > 0 THEN U32(v.hi, v.lo - 1)
    ELSE IF v.hi > 0 THEN U32(v.hi - 1, Limb - 1)
    ELSE U32Max

\* u32::saturating_sub(1)
SaturatingSub1(v) ==
    IF v.lo > 0 THEN U32(v.hi, v.lo - 1)
    ELSE IF v.hi > 0 THEN U32(v.hi - 1, Limb - 1)
    ELSE U32Zero

\* u32 -> u32 try_into: succeeds on every value of the source type
TryIntoU32(v) ==
    IF v.hi \in 0..(Limb - 1) /\ v.lo \in 0..(Limb - 1) THEN Some(v) ELSE None

----------------------------------------------------------------------------
(* str operations *)

Char(s, i) == SubSeq(s, i, i)

WhiteSpace == {" ", "\t", "\r"}

Digits == <<"0", "1", "2", "3", "4", "5", "6", "7", "8", "9">>

IsDigit(c) == \E d \in 1..10 : Digits[d] = c

DigitVal(c) == (CHOOSE d \in 1..10 : Digits[d] = c) - 1

\* position of the first occurrence of the character c in s, 0 when absent
Find(s, c) ==
    IF \E i \in 1..Len(s) : Char(s, i) = c
    THEN CHOOSE i \in 1..Len(s) :
            Char(s, i) = c /\ \A j \in 1..(i - 1) : Char(s, j) # c
    ELSE 0

\* str::split_once(c)
split_once(s, c) ==
    LET i == Find(s, c) IN
    IF i = 0 THEN None
    ELSE Some(<<SubSeq(s, 1, i - 1), SubSeq(s, i + 1, Len(s))>>)

starts_with(s, p) == Len(p) <= Len(s) /\ SubSeq(s, 1, Len(p)) = p

ends_with(s, p) ==
    Len(p) <= Len(s) /\ SubSeq(s, Len(s) - Len(p) + 1, Len(s)) = p

\* str::strip_prefix(p)
strip_prefix(s, p) ==
    IF starts_with(s, p) THEN Some(SubSeq(s, Len(p) + 1, Len(s))) ELSE None

\* str::trim_start()
trim_start(s) ==
    LET keep == {i \in 1..Len(s) : Char(s, i) \notin WhiteSpace} IN
    IF keep = {} THEN ""
    ELSE SubSeq(s, CHOOSE i \in keep : \A j \in keep : i <= j, Len(s))

\* str::trim_end()
trim_end(s) ==
    LET keep == {i \in 1..Len(s) : Char(s, i) \notin WhiteSpace} IN
    IF keep = {} THEN ""
    ELSE SubSeq(s, 1, CHOOSE i \in keep : \A j \in keep : j <= i)

\* str::trim()
trim(s) == trim_end(trim_start(s))

\* str::strip_suffix(c).unwrap_or(s): at most one trailing c is removed
strip_one_suffix(s, c) ==
    IF ends_with(s, c) THEN SubSeq(s, 1, Len(s) - 1) ELSE s

\* str::trim_end_matches(c) for a one-character pattern: every trailing c goes
trim_end_matches(s, c) ==
    LET keep == {i \in 1..Len(s) : Char(s, i) # c} IN
    IF keep = {} THEN ""
    ELSE SubSeq(s, 1, CHOOSE i \in keep : \A j \in keep : j <= i)

\* one step of the digit loop of u32::from_str: acc * 10 + d, checked
PushDigit(acc, d) ==
    IF ~acc.ok THEN acc
    ELSE LET lo2 == acc.val.lo * 10 + d
             hi2 == acc.val.hi * 10 + (lo2 \div Limb)
         IN  IF hi2 >= Limb THEN ParseErr
             ELSE ParseOk(U32(hi2, lo2 % Limb))

RECURSIVE ParseDigits(_, _, _)
ParseDigits(s, i, acc) ==
    IF i > Len(s) THEN acc
    ELSE IF ~IsDigit(Char(s, i)) THEN ParseErr
    ELSE ParseDigits(s, i + 1, PushDigit(acc, DigitVal(Char(s, i))))

\* str::parse::<u32>(): an optional '+', then one or more decimal digits
\* whose value fits 32 bits
parse_u32(s) ==
    LET body == IF starts_with(s, "+") THEN SubSeq(s, 2, Len(s)) ELSE s IN
    IF body = "" THEN ParseErr ELSE ParseDigits(body, 1, ParseOk(U32Zero))

----------------------------------------------------------------------------
(* parse_diag *)

HINT == "HINT"
ERROR == "ERROR"

Position(line, character) == [line |-> line, character |-> character]

Diagnostic(start, end, severity, message) ==
    [range |-> [start |-> start, end |-> end],
     severity |-> severity,
     source |-> "capnls",
     message |-> message]

DiagNone == [tag |-> "None"]
DiagPanic == [tag |-> "Panic"]
DiagSome(d) == [tag |-> "Some", val |-> d]

\* rest.trim().trim_end_matches(".")
message_of(rest) == trim_end_matches(trim(rest), ".")

\* the severity test with the phrase looked for at the start of the message
severity_by_prefix(msg) ==
    IF starts_with(msg, "originally used here") THEN HINT ELSE ERROR

\* if msg.ends_with("originally used here") { HINT } else { ERROR }
severity_of(msg) ==
    IF ends_with(msg, "originally used here") THEN HINT ELSE ERROR

\* the column match with the end of a range taken from its start
columns_start_only(colno) ==
    LET sp == split_once(colno, "-") IN
    IF sp.some
    THEN LET a == parse_u32(sp.val[1])
             b == parse_u32(sp.val[2])
         IN  IF a.ok /\ b.ok THEN ParseOk(<<a.val, a.val>>) ELSE ParseErr
    ELSE LET a == parse_u32(colno)
         IN  IF a.ok THEN ParseOk(<<a.val, a.val>>) ELSE ParseErr

\* match colno.split_once('-'): (col_start, col_end), or the unwrap's panic
columns_of(colno) ==
    LET sp == split_once(colno, "-") IN
    IF sp.some
    THEN LET a == parse_u32(sp.val[1])
             b == parse_u32(sp.val[2])
         IN  IF a.ok /\ b.ok THEN ParseOk(<<a.val, b.val>>) ELSE ParseErr
    ELSE LET a == parse_u32(colno)
         IN  IF a.ok THEN ParseOk(<<a.val, a.val>>) ELSE ParseErr

\* the tail of parse_diag, from the message on: rest is what follows the
\* third colon
parse_tail(lineno, colno, rest) ==
    LET p == strip_prefix(rest, " error: ") IN
    IF ~p.some THEN DiagNone
    ELSE
    LET msg == message_of(p.val)
        ln == parse_u32(lineno)
    IN
    IF ~ln.ok THEN DiagPanic
    ELSE
    LET cols == columns_of(colno) IN
    IF ~cols.ok THEN DiagPanic
    ELSE
    LET line == SaturatingSub1(ln.val)
        col_start == TryIntoU32(SaturatingSub1(cols.val[1]))
        col_end == TryIntoU32(SaturatingSub1(cols.val[2]))
    IN
    IF ~col_start.some \/ ~col_end.some THEN DiagNone
    ELSE DiagSome(Diagnostic(Position(line, col_start.val),
                             Position(line, col_end.val),
                             severity_of(msg), msg))

\* fn parse_diag(diag: &str) -> Option<Diagnostic>, with a panic as a third
\* outcome
parse_diag(diag) ==
    LET s1 == split_once(diag, ":") IN
    IF ~s1.some THEN DiagNone
    ELSE
    LET s2 == split_once(s1.val[2], ":") IN
    IF ~s2.some THEN DiagNone
    ELSE
    LET s3 == split_once(s2.val[2], ":") IN
    IF ~s3.some THEN DiagNone
    ELSE parse_tail(s2.val[1], s3.val[1], s3.val[2])

\* one trailing "\r" of a line goes with its "\n"
StripCR(s) == strip_one_suffix(s, "\r")

\* str::lines(): the pieces between line feeds; no item for what follows the
\* last line feed when that is empty
RECURSIVE Lines(_)
Lines(text) ==
    LET i == Find(text, "\n") IN
    IF i = 0 THEN (IF text = "" THEN <<>> ELSE <<text>>)
    ELSE <<StripCR(SubSeq(text, 1, i - 1))>>
            \o Lines(SubSeq(text, i + 1, Len(text)))

----------------------------------------------------------------------------
(* What the compiler writes.  A line is described by its parts and its    *)
(* text is composed from them; parse_diag sees the text alone.            *)

MaxLines == 2
MaxPaths == 2

\* v / 10 and v % 10 on limbs
DivMod10(v) ==
    LET t == (v.hi % 10) * Limb + v.lo IN
    [q |-> U32(v.hi \div 10, t \div 10), r |-> t % 10]

\* the decimal numeral of a u32, as the compiler prints a position
RECURSIVE ToDecimal(_)
ToDecimal(v) ==
    IF v.hi = 0 /\ v.lo < 10 THEN Digits[v.lo + 1]
    ELSE LET d == DivMod10(v) IN ToDecimal(d.q) \o Digits[d.r + 1]

Num(v) == [kind |-> "num", tok |-> ToDecimal(v), val |-> v]
Signed(t, v) == [kind |-> "signed", tok |-> t, val |-> v]
Overflow(t) == [kind |-> "overflow", tok |-> t, val |-> U32Zero]
Bad(t) == [kind |-> "bad", tok |-> t, val |-> U32Zero]

Single(a) == [form |-> "single", a |-> a, b |-> a]
Ranged(a, b) == [form |-> "range", a |-> a, b |-> b]

ColText(c) ==
    IF c.form = "single" THEN c.a.tok ELSE c.a.tok \o "-" \o c.b.tok

DiagLine(file, lno, col, sev, msg, term, eol) ==
    [kind |-> "diag", file |-> file, lno |-> lno, col |-> col, sev |-> sev,
     msg |-> msg, term |-> term, eol |-> eol, raw |-> ""]

RawLine(text) ==
    [kind |-> "raw", file |-> "", lno |-> Bad(""), col |-> Single(Bad("")),
     sev |-> "", msg |-> "", term |-> "", eol |-> "\n", raw |-> text]

\* the text of a line, without its line ending
Compose(d) ==
    IF d.kind = "raw" THEN d.raw
    ELSE d.file \o ":" \o d.lno.tok \o ":" \o ColText(d.col) \o ":"
            \o d.sev \o d.msg \o d.term

\* the stderr text of a sequence of lines
RECURSIVE StderrText(_)
StderrText(ds) ==
    IF ds = <<>> THEN ""
    ELSE Compose(Head(ds)) \o Head(ds).eol \o StderrText(Tail(ds))

ErrorMarker == " error: "

Files == {"foo.capnp", "src/a.capnp"}

LineNumbers ==
    {Num(U32(0, 0)), Num(U32(0, 1)), Num(U32(0, 2)), Num(U32(0, 32)),
     Num(U32(1, 0)), Num(U32Max),
     Signed("+3", U32(0, 3)), Overflow("4294967296"),
     Bad(""), Bad("x"), Bad("-1")}

ColumnNumbers ==
    {Num(U32(0, 0)), Num(U32(0, 1)), Num(U32(0, 9)), Num(U32Max),
     Overflow("4294967296"), Overflow("99999999999"), Bad(""), Bad("x")}

RangeEnds ==
    {Num(U32(0, 0)), Num(U32(0, 1)), Num(U32(0, 8)), Num(U32Max),
     Overflow("4294967296"), Bad(""), Bad("2-3")}

Columns ==
    {Single(a) : a \in ColumnNumbers}
        \cup {Ranged(a, b) : a \in RangeEnds, b \in RangeEnds}

Markers == {ErrorMarker, " warning: ", " error:", "error: "}

Messages ==
    {"Parse error", "Ordinal @0 originally used here",
     "originally used here first", "Originally Used Here",
     "etc.", "wait..", "tail ", " lead", "a.b", ""}

Terminators == {".", ""}

\* every line the single-line specification parses
AllLines ==
    {DiagLine(f, l, c, s, m, t, "\n") :
        f \in Files, l \in LineNumbers, c \in Columns, s \in Markers,
        m \in Messages, t \in Terminators}
    \cup {RawLine(""), RawLine("error: no colon here"),
          RawLine("foo.capnp:3: error: two colons")}

\* the lines a batch is made of
BatchLines ==
    {DiagLine("foo.capnp", Num(U32(0, 32)), Single(Num(U32(0, 9))),
              ErrorMarker, "Parse error", ".", "\n"),
     DiagLine("foo.capnp", Num(U32(0, 4)), Ranged(Num(U32(0, 4)), Num(U32(0, 5))),
              ErrorMarker, "Duplicate ordinal number", ".", "\r\n"),
     DiagLine("foo.capnp", Num(U32(0, 3)), Ranged(Num(U32(0, 4)), Num(U32(0, 5))),
              ErrorMarker, "Ordinal @0 originally used here", ".", "\n"),
     DiagLine("foo.capnp", Num(U32(0, 0)), Single(Num(U32(0, 0))),
              ErrorMarker, "wait..", ".", "\n"),
     DiagLine("foo.capnp", Num(U32(0, 2)), Single(Num(U32(0, 1))),
              " warning: ", "Unused import", ".", "\n"),
     DiagLine("foo.capnp", Bad("x"), Single(Num(U32(0, 1))),
              ErrorMarker, "Bad line", ".", "\n"),
     DiagLine("foo.capnp", Num(U32(0, 1)), Single(Overflow("4294967296")),
              ErrorMarker, "Wide column", ".", "\n"),
     DiagLine("foo.capnp", Num(U32(0, 1)),
              Ranged(Num(U32(0, 2)), Overflow("4294967296")),
              ErrorMarker, "Wide end", ".", "\n"),
     RawLine(""),
     RawLine("capnp compile: 1 error")}

RECURSIVE SeqsUpTo(_, _)
SeqsUpTo(S, n) ==
    IF n = 0 THEN {<<>>}
    ELSE LET shorter == SeqsUpTo(S, n - 1) IN
         shorter \cup {Append(q, x) : q \in {r \in shorter : Len(r) = n - 1}, x \in S}

----------------------------------------------------------------------------
(* diags *)

Path(text, unicode) == [text |-> text, unicode |-> unicode]

\* Path::to_str(): None when the path is not valid Unicode
to_str(p) == IF p.unicode THEN Some(p.text) ELSE None

Uri(scheme, local, path) == [scheme |-> scheme, local |-> local, path |-> path]

\* Url::to_file_path(): fails on a URL that names no local path
to_file_path(u) == IF u.local THEN Some(u.path) ELSE None

DocPath == Path("/work/foo.capnp", TRUE)

Uris ==
    {Uri("file", TRUE, DocPath),
     Uri("file", FALSE, DocPath),
     Uri("file", TRUE, Path("/work/f\\xff.capnp", FALSE)),
     Uri("http", TRUE, DocPath),
     Uri("untitled", FALSE, DocPath)}

SearchPaths ==
    {Path("/inc", TRUE), Path("/lib", TRUE), Path("/b\\xff", FALSE)}

Pending == [kind |-> "pending", why |-> "", val |-> <<>>]
Err(why) == [kind |-> "Err", why |-> why, val |-> <<>>]
Ok(v) == [kind |-> "Ok", why |-> "", val |-> v]
Panicked == [kind |-> "Panic", why |-> "", val |-> <<>>]

NoOutput == [captured |-> FALSE, utf8 |-> TRUE, text |-> ""]
Captured(utf8, text) == [captured |-> TRUE, utf8 |-> utf8, text |-> text]

\* the scheme test that lets every scheme through
scheme_any(u) == TRUE

\* uri.scheme() == "file"
scheme_supported(u) == u.scheme = "file"

\* the include arguments without the filter: a non-Unicode entry is passed on
RECURSIVE include_args_unfiltered(_)
include_args_unfiltered(ps) ==
    IF ps = <<>> THEN <<>>
    ELSE <<"-I" \o Head(ps).text>> \o include_args_unfiltered(Tail(ps))

\* proto_paths.iter().filter_map(|p| p.to_str()).map(|p| "-I" + p)
RECURSIVE include_args(_)
include_args(ps) ==
    IF ps = <<>> THEN <<>>
    ELSE LET t == to_str(Head(ps)) IN
         (IF t.some THEN <<"-I" \o t.val>> ELSE <<>>) \o include_args(Tail(ps))

\* Command::new("capnp").arg("compile").args(..).arg(path)
command_line(path, ps) == <<"capnp", "compile">> \o include_args(ps) \o <<path>>

Init ==
    /\ uri \in Uris
    /\ proto_paths \in SeqsUpTo(SearchPaths, MaxPaths)
    /\ pc = "start"
    /\ cmd = <<>>
    /\ spawned = 0
    /\ emitted = <<>>
    /\ output = NoOutput
    /\ lines = <<>>
    /\ idx = 1
    /\ res = <<>>
    /\ ret = Pending

\* the scheme check and the conversion of the URI to a path
CheckUri ==
    /\ pc = "start"
    /\ IF ~scheme_supported(uri)
       THEN pc' = "done" /\ ret' = Err("Unsupported URI scheme")
       ELSE IF ~to_file_path(uri).some
       THEN pc' = "done" /\ ret' = Err("Failed to normalize URI path")
       ELSE pc' = "command" /\ ret' = ret
    /\ UNCHANGED <<uri, proto_paths, cmd, spawned, emitted, output, lines, idx, res>>

\* the command line: program, subcommand, include paths, document
BuildCommand ==
    /\ pc = "command"
    /\ LET path == to_str(to_file_path(uri).val) IN
       IF ~path.some
       THEN pc' = "done" /\ ret' = Err("Non-unicode path") /\ cmd' = <<"capnp">>
       ELSE pc' = "run" /\ ret' = ret /\ cmd' = command_line(path.val, proto_paths)
    /\ UNCHANGED <<uri, proto_paths, spawned, emitted, output, lines, idx, res>>

\* cmd.output()?: the process cannot be started
SpawnFails ==
    /\ pc = "run"
    /\ pc' = "done"
    /\ ret' = Err("spawn")
    /\ UNCHANGED <<uri, proto_paths, cmd, spawned, emitted, output, lines, idx, res>>

\* cmd.output()?: the process runs to its end and its stderr is captured
RunCompiler ==
    /\ pc = "run"
    /\ \E ds \in SeqsUpTo(BatchLines, MaxLines), utf8 \in BOOLEAN :
        /\ emitted' = ds
        /\ output' = Captured(utf8, StderrText(ds))
    /\ spawned' = spawned + 1
    /\ pc' = "decode"
    /\ UNCHANGED <<uri, proto_paths, cmd, lines, idx, res, ret>>

\* std::str::from_utf8(stderr)? and the start of the iteration over lines()
Decode ==
    /\ pc = "decode"
    /\ IF ~output.utf8
       THEN pc' = "done" /\ ret' = Err("utf8") /\ lines' = lines
       ELSE pc' = "parse" /\ ret' = ret /\ lines' = Lines(output.text)
    /\ UNCHANGED <<uri, proto_paths, cmd, spawned, emitted, output, idx, res>>

\* one item of stderr.lines().filter_map(|l| parse_diag(l))
ParseLine ==
    /\ pc = "parse"
    /\ idx <= Len(lines)
    /\ LET d == parse_diag(lines[idx]) IN
       IF d.tag = "Panic"
       THEN pc' = "done" /\ ret' = Panicked /\ res' = res /\ idx' = idx
       ELSE /\ pc' = pc
            /\ ret' = ret
            /\ idx' = idx + 1
            /\ res' = IF d.tag = "Some" THEN Append(res, d.val) ELSE res
    /\ UNCHANGED <<uri, proto_paths, cmd, spawned, emitted, output, lines>>

\* .collect() and Ok(res)
Return ==
    /\ pc = "parse"
    /\ idx > Len(lines)
    /\ pc' = "done"
    /\ ret' = Ok(res)
    /\ UNCHANGED <<uri, proto_paths, cmd, spawned, emitted, output, lines, idx, res>>

Next ==
    \/ CheckUri
    \/ BuildCommand
    \/ SpawnFails
    \/ RunCompiler
    \/ Decode
    \/ ParseLine
    \/ Return

Spec == Init /\ [][Next]_vars

\* a call that has captured one line of stderr and is about to parse it
InitLine ==
    /\ uri = Uri("file", TRUE, DocPath)
    /\ proto_paths = <<>>
    /\ pc = "parse"
    /\ cmd = command_line(DocPath.text, <<>>)
    /\ spawned = 1
    /\ \E d \in AllLines :
        /\ emitted = <<d>>
        /\ output = Captured(TRUE, StderrText(<<d>>))
        /\ lines = Lines(StderrText(<<d>>))
    /\ idx = 1
    /\ res = <<>>
    /\ ret = Pending

NextLine ==
    \/ ParseLine
    \/ Return

LineSpec == InitLine /\ [][NextLine]_vars

----------------------------------------------------------------------------
(* Reading a line descriptor: what the grammar                             *)
(* <file>:<line>:<col>[-<col>]: error: <message> makes of it.              *)

Done == pc = "done"

\* the compiler ran and its stderr was decoded, so the parser saw every line
Parsed == Done /\ output.captured /\ output.utf8

HasMarker(d) == d.kind = "diag" /\ d.sev = ErrorMarker

IsNumeral(t) == t.kind = "num"

AtLeastOne(t) == IsNumeral(t) /\ t.val # U32Zero

\* a line of the grammar: numerals for the line and the column(s)
Matching(d) ==
    HasMarker(d) /\ IsNumeral(d.lno) /\ IsNumeral(d.col.a) /\ IsNumeral(d.col.b)

\* a line of the grammar but for a column that does not fit 32 bits
ColumnTooWide(d) ==
    /\ HasMarker(d)
    /\ IsNumeral(d.lno)
    /\ d.col.a.kind \in {"num", "overflow"}
    /\ d.col.b.kind \in {"num", "overflow"}
    /\ "overflow" \in {d.col.a.kind, d.col.b.kind}

ValidSingle(d) ==
    /\ HasMarker(d)
    /\ d.term = "."
    /\ AtLeastOne(d.lno)
    /\ d.col.form = "single"
    /\ AtLeastOne(d.col.a)

ValidRanged(d) ==
    /\ HasMarker(d)
    /\ AtLeastOne(d.lno)
    /\ d.col.form = "range"
    /\ AtLeastOne(d.col.a)
    /\ AtLeastOne(d.col.b)

\* v - 1 for v >= 1
OneLess(v) == IF v.lo > 0 THEN U32(v.hi, v.lo - 1) ELSE U32(v.hi - 1, Limb - 1)

\* v - 1, and 0 for v = 0
ZeroIndexed(v) == IF v = U32Zero THEN U32Zero ELSE OneLess(v)

LessEq(v, w) == v.hi < w.hi \/ (v.hi = w.hi /\ v.lo <= w.lo)

\* the range the grammar gives a matching line
RangeOf(d) ==
    [start |-> Position(ZeroIndexed(d.lno.val), ZeroIndexed(d.col.a.val)),
     end |-> Position(ZeroIndexed(d.lno.val), ZeroIndexed(d.col.b.val))]

\* the ranges of the matching lines of ds, in their order
RECURSIVE MatchingRanges(_)
MatchingRanges(ds) ==
    IF ds = <<>> THEN <<>>
    ELSE (IF Matching(Head(ds)) THEN <<RangeOf(Head(ds))>> ELSE <<>>)
            \o MatchingRanges(Tail(ds))

RangesOf(ds) == [i \in 1..Len(ds) |-> ds[i].range]

IsText(p) == p.unicode

\* one -I<path> per text-representable entry, in the order of the set
ExpectedIncludes(ps) ==
    LET kept == SelectSeq(ps, IsText) IN
    [i \in 1..Len(kept) |-> "-I" \o kept[i].text]

ValidDocument(u) == u.scheme = "file" /\ u.local /\ u.path.unicode

\* the text with surrounding whitespace and exactly one trailing period removed
message_strip_one(rest) == strip_one_suffix(trim(rest), ".")

----------------------------------------------------------------------------
(* The claims *)

\* C1: the parser never fails: whatever the lines of the decoded stderr are,
\* the call ends with a sequence of records, never with a panic.
C1_ParserNeverFails == Parsed => ret.kind = "Ok"

\* C2: a valid single-column line "f:L:C: error: M." gives one record with
\* start = end = (L-1, C-1), message M trimmed (the trailing period gone) and
\* source "capnls".
C2_SingleColumnRecord ==
    (Done /\ ValidSingle(emitted[1])) =>
        /\ ret.kind = "Ok"
        /\ Len(ret.val) = 1
        /\ LET d == emitted[1]
               p == Position(OneLess(d.lno.val), OneLess(d.col.a.val))
           IN  /\ ret.val[1].range = [start |-> p, end |-> p]
               /\ ret.val[1].message = trim(d.msg)
               /\ ret.val[1].source = "capnls"

\* C3: a valid ranged line "f:L:C1-C2: error: M." gives one record whose start
\* is (L-1, C1-1) and whose end is (L-1, C2-1).
C3_RangedColumns ==
    (Done /\ ValidRanged(emitted[1])) =>
        /\ ret.kind = "Ok"
        /\ Len(ret.val) = 1
        /\ LET d == emitted[1] IN
           ret.val[1].range =
               [start |-> Position(OneLess(d.lno.val), OneLess(d.col.a.val)),
                end |-> Position(OneLess(d.lno.val), OneLess(d.col.b.val))]

C3_Witness ==
    /\ Done
    /\ ValidRanged(emitted[1])
    /\ emitted[1].col.a.val # emitted[1].col.b.val
    /\ emitted[1].col.b.val = U32Max
    /\ ret.kind = "Ok"

\* C4: the conversion to 0-indexed saturates at zero: a line or column number
\* of 0 or 1 gives 0, and no coordinate of a record is above the number it was
\* read from (none wrapped around).
C4_SaturatesAtZero ==
    \A i \in 1..Len(res) :
        LET d == emitted[1]
            r == res[i].range
            low == {U32Zero, U32(0, 1)}
        IN  /\ d.lno.val \in low => r.start.line = U32Zero /\ r.end.line = U32Zero
            /\ d.col.a.val \in low => r.start.character = U32Zero
            /\ d.col.b.val \in low => r.end.character = U32Zero
            /\ LessEq(r.start.line, d.lno.val)
            /\ LessEq(r.end.line, d.lno.val)
            /\ LessEq(r.start.character, d.col.a.val)
            /\ LessEq(r.end.character, d.col.b.val)

C4_Witness ==
    /\ Len(res) = 1
    /\ emitted[1].lno = Num(U32Zero)
    /\ emitted[1].col = Ranged(Num(U32Zero), Num(U32(0, 1)))

\* C5: a record is a Hint exactly when its message ends with "originally used
\* here", and is an Error otherwise; no other severity is emitted.
C5_HintBySuffix ==
    \A i \in 1..Len(res) :
        /\ res[i].severity \in {HINT, ERROR}
        /\ res[i].severity = HINT <=> ends_with(res[i].message, "originally used here")

C5_Witness ==
    /\ Len(res) = 1
    /\ res[1].severity = HINT
    /\ emitted[1].msg = "Ordinal @0 originally used here"

\* C6: over any input the records the call hands back are exactly one per
\* matching line, in the order of the lines: none reordered, duplicated or
\* dropped; lines without the marker or with fewer than three colons give no
\* record and stop nothing.
C6_OneRecordPerMatchingLine ==
    Parsed => RangesOf(ret.val) = MatchingRanges(emitted)

\* C7: a matching line whose column does not fit 32 bits is skipped alone: the
\* call does not fail and the other lines still give their records.
C7_WideColumnSkipsOneLine ==
    (/\ Parsed
     /\ \E i \in 1..Len(emitted) : ColumnTooWide(emitted[i])
     /\ \A i \in 1..Len(emitted) :
            Matching(emitted[i]) \/ ColumnTooWide(emitted[i]) \/ ~HasMarker(emitted[i]))
        => ret.kind = "Ok" /\ RangesOf(ret.val) = MatchingRanges(emitted)

\* C8: the message is the text after " error: " with surrounding whitespace
\* and exactly one trailing period removed; it has no whitespace at either
\* end, and "M..." loses one period only.
C8_MessageNormalised ==
    \A i \in 1..Len(res) :
        LET d == emitted[1] IN
        /\ res[i].message = message_strip_one(d.msg \o d.term)
        /\ trim(res[i].message) = res[i].message

\* C9: a document whose scheme is not "file" is rejected with an error and no
\* diagnostics, and no process is ever started for it.
C9_SchemeRejectedBeforeSpawn ==
    uri.scheme # "file" =>
        /\ spawned = 0
        /\ pc \in {"start", "done"}
        /\ Done => ret = Err("Unsupported URI scheme")

C9_Witness == Done /\ uri.scheme # "file" /\ uri.local /\ spawned = 0

\* C10: the command line is compile, one -I<path> per text-representable
\* search path in the order of the set, then the document path; an entry that
\* is not representable is left out and never fails the call of a valid
\* document.
C10_CommandLine ==
    (ValidDocument(uri) /\ pc \notin {"start", "command"}) =>
        /\ Tail(cmd) = <<"compile">> \o ExpectedIncludes(proto_paths) \o <<uri.path.text>>
        /\ ret.kind = "Err" => ret.why \in {"spawn", "utf8"}

C10_Witness ==
    /\ pc = "decode"
    /\ Len(proto_paths) = 2
    /\ ~proto_paths[1].unicode
    /\ proto_paths[2].unicode
    /\ Len(cmd) = 4

====
